---- MODULE Spec2Model ----
(***************************************************************************)
(* Model of python_api_flask.py: five Flask handlers over the module-level *)
(* list `tasks`.  Each handler is one atomic action in Spec (a sequential  *)
(* run of requests); SpecConc splits create_task at the point between the  *)
(* construction of the task dict (which reads tasks[-1]['id']) and         *)
(* tasks.append(task), for two requests served by two threads.             *)
(***************************************************************************)
EXTENDS Integers, Sequences, FiniteSets, TLC

VARIABLES tasks, request, response, ever_ids, prev_created, threads

vars == <<tasks, request, response, ever_ids, prev_created, threads>>

---------------------------------------------------------------------------
(* Bounds *)

\* create_task appends no task once the last id has reached MaxId
MaxId == 3

---------------------------------------------------------------------------
(* Request bodies.  request.json is None (no JSON body) or a JSON object,  *)
(* modelled as a function from the keys present to their values.           *)

None == [none |-> TRUE]

Keys == {"title", "description", "done", "id"}

\* the values a body carries for each key
BodyTitles == {"", "X"}
BodyDescriptions == {"D"}
BodyDones == {TRUE}
BodyIds == {7}

JsonObject(ks, t, d, dn, i) ==
    [k \in ks |-> CASE k = "title" -> t
                    [] k = "description" -> d
                    [] k = "done" -> dn
                    [] OTHER -> i]

\* Python truthiness of request.json: None and the empty dict are falsy
Falsy(json) == json = None \/ DOMAIN json = {}

\* dict.get(key, default)
Get(json, key, default) == IF key \in DOMAIN json THEN json[key] ELSE default

---------------------------------------------------------------------------
(* The task list *)

SeedTasks ==
    << [id |-> 1, title |-> "Task 1",
        description |-> "Description for Task 1", done |-> FALSE],
       [id |-> 2, title |-> "Task 2",
        description |-> "Description for Task 2", done |-> FALSE] >>

\* [task for task in tasks if task['id'] == task_id]
Matching(ts, task_id) == SelectSeq(ts, LAMBDA t : t.id = task_id)

\* index in ts of Matching(ts, task_id)[0]
FirstIndexOfId(ts, task_id) ==
    CHOOSE i \in 1..Len(ts) :
        /\ ts[i].id = task_id
        /\ \A j \in 1..(i - 1) : ts[j].id # task_id

\* a delete that drops the last element whatever x is
RemoveLast(ts, x) == SubSeq(ts, 1, Len(ts) - 1)

\* list.remove(x): drops the first element equal to x
Remove(ts, x) ==
    LET i == CHOOSE k \in 1..Len(ts) :
                 /\ ts[k] = x
                 /\ \A j \in 1..(k - 1) : ts[j] # x
    IN  SubSeq(ts, 1, i - 1) \o SubSeq(ts, i + 1, Len(ts))

\* an id taken from the length of the list
NewIdFromLen(ts) == Len(ts) + 1

\* tasks[-1]['id'] + 1
NewId(ts) == ts[Len(ts)].id + 1

\* the dict built by create_task
NewTask(ts, json) ==
    [id |-> NewId(ts),
     title |-> json["title"],
     description |-> Get(json, "description", ""),
     done |-> FALSE]

\* a merge that also takes id from the body
MergeWithId(task, json) ==
    [id |-> Get(json, "id", task.id),
     title |-> Get(json, "title", task.title),
     description |-> Get(json, "description", task.description),
     done |-> Get(json, "done", task.done)]

\* the three assignments of update_task
Merge(task, json) ==
    [id |-> task.id,
     title |-> Get(json, "title", task.title),
     description |-> Get(json, "description", task.description),
     done |-> Get(json, "done", task.done)]

\* a rejection test that forgets the title key
TitleRequiredBodyOnly(json) == Falsy(json)

\* create_task's rejection test
TitleRequired(json) == Falsy(json) \/ "title" \notin DOMAIN json

\* update_task's rejection test
NoData(json) == Falsy(json)

\* an append that takes the id again from the list it appends to
AppendTaskFreshId(ts, task) ==
    Append(ts, [task EXCEPT !.id = ts[Len(ts)].id + 1])

\* tasks.append(task)
AppendTask(ts, task) == Append(ts, task)

\* a create that would append is taken only below the bound
CanCreate(ts, json) ==
    (~TitleRequired(json) /\ ts # <<>>) => ts[Len(ts)].id < MaxId

IdsOf(ts) == {ts[i].id : i \in 1..Len(ts)}

---------------------------------------------------------------------------
(* Responses: (status code, JSON body) *)

Error(status, msg) == [status |-> status, body |-> [error |-> msg]]
NotFound == Error(404, "Task not found")
TitleIsRequired == Error(400, "Title is required")
NoDataProvided == Error(400, "No data provided")
\* an exception escaping the handler: Flask answers 500
Crash(exc) == [status |-> 500, body |-> [exception |-> exc]]

get_task_response(ts, task_id) ==
    IF Len(Matching(ts, task_id)) = 0
    THEN NotFound
    ELSE [status |-> 200, body |-> [task |-> Matching(ts, task_id)[1]]]

Idle == [pc |-> "idle"]
Workers == {1, 2}

---------------------------------------------------------------------------
(* Sequential runs: one handler per step *)

Init ==
    /\ tasks = SeedTasks
    /\ request = [op |-> "none", task_id |-> 0, json |-> None]
    /\ response = [status |-> 0, body |-> None]
    /\ ever_ids = IdsOf(SeedTasks)
    /\ prev_created = 0
    /\ threads = [w \in Workers |-> Idle]

get_tasks ==
    /\ request' = [op |-> "list", task_id |-> 0, json |-> None]
    /\ response' = [status |-> 200, body |-> [tasks |-> tasks]]
    /\ UNCHANGED <<tasks, ever_ids, prev_created, threads>>

get_task(task_id) ==
    /\ request' = [op |-> "get", task_id |-> task_id, json |-> None]
    /\ response' = get_task_response(tasks, task_id)
    /\ UNCHANGED <<tasks, ever_ids, prev_created, threads>>

create_task(json) ==
    /\ CanCreate(tasks, json)
    /\ request' = [op |-> "create", task_id |-> 0, json |-> json]
    /\ IF TitleRequired(json)
       THEN /\ response' = TitleIsRequired
            /\ UNCHANGED <<tasks, ever_ids, prev_created>>
       ELSE IF tasks = <<>>
       THEN \* tasks[-1] raises IndexError
            /\ response' = Crash("IndexError")
            /\ UNCHANGED <<tasks, ever_ids, prev_created>>
       ELSE IF "title" \notin DOMAIN json
       THEN \* request.json['title'] raises KeyError
            /\ response' = Crash("KeyError")
            /\ UNCHANGED <<tasks, ever_ids, prev_created>>
       ELSE /\ tasks' = AppendTask(tasks, NewTask(tasks, json))
            /\ response' = [status |-> 201,
                            body |-> [task |-> NewTask(tasks, json)]]
            /\ ever_ids' = ever_ids \cup {NewId(tasks)}
            /\ prev_created' = NewId(tasks)
    /\ UNCHANGED threads

update_task(task_id, json) ==
    /\ request' = [op |-> "update", task_id |-> task_id, json |-> json]
    /\ IF Len(Matching(tasks, task_id)) = 0
       THEN /\ response' = NotFound
            /\ UNCHANGED tasks
       ELSE IF NoData(json)
       THEN /\ response' = NoDataProvided
            /\ UNCHANGED tasks
       ELSE LET i == FirstIndexOfId(tasks, task_id) IN
            /\ tasks' = [tasks EXCEPT ![i] = Merge(tasks[i], json)]
            /\ response' = [status |-> 200,
                            body |-> [task |-> Merge(tasks[i], json)]]
    /\ UNCHANGED <<ever_ids, prev_created, threads>>

delete_task(task_id) ==
    /\ request' = [op |-> "delete", task_id |-> task_id, json |-> None]
    /\ IF Len(Matching(tasks, task_id)) = 0
       THEN /\ response' = NotFound
            /\ UNCHANGED tasks
       ELSE /\ tasks' = Remove(tasks, Matching(tasks, task_id)[1])
            /\ response' = [status |-> 200, body |-> [result |-> TRUE]]
    /\ UNCHANGED <<ever_ids, prev_created, threads>>

\* the ids a request path can carry: every id the run can hold, and one more
PathIds == 1..(MaxId + 1)

\* bodies sent to POST /tasks
CreateKeySets == {{}, {"description"}, {"title"}, {"title", "description"}}

CreateBodies ==
    {None} \cup
    {JsonObject(ks, t, d, dn, i) :
        ks \in CreateKeySets, t \in BodyTitles, d \in BodyDescriptions,
        dn \in BodyDones, i \in BodyIds}

\* bodies sent to PUT /tasks/<id>
UpdateKeySets ==
    {{}, {"title"}, {"description"}, {"done"}, {"id"}, {"title", "done"}, Keys}

UpdateBodies ==
    {None} \cup
    {JsonObject(ks, "", d, dn, i) :
        ks \in UpdateKeySets, d \in BodyDescriptions,
        dn \in BodyDones, i \in BodyIds}

Next ==
    \/ get_tasks
    \/ \E task_id \in PathIds : get_task(task_id)
    \/ \E json \in CreateBodies : create_task(json)
    \/ \E task_id \in PathIds, json \in UpdateBodies : update_task(task_id, json)
    \/ \E task_id \in PathIds : delete_task(task_id)

Spec == Init /\ [][Next]_vars

---------------------------------------------------------------------------
(* Two create_task requests on two threads.  Building the task dict reads  *)
(* tasks[-1]['id']; tasks.append(task) is a later step, and nothing keeps  *)
(* the other thread from running between the two.                          *)

\* lines 37-44: the rejection test, then the dict with tasks[-1]['id'] + 1
create_task_build(w, json) ==
    /\ threads[w].pc = "idle"
    /\ CanCreate(tasks, json)
    /\ threads' =
         [threads EXCEPT ![w] =
            IF TitleRequired(json)
            THEN [pc |-> "done", response |-> TitleIsRequired]
            ELSE IF tasks = <<>>
            THEN [pc |-> "done", response |-> Crash("IndexError")]
            ELSE IF "title" \notin DOMAIN json
            THEN [pc |-> "done", response |-> Crash("KeyError")]
            ELSE [pc |-> "built", task |-> NewTask(tasks, json)]]
    /\ UNCHANGED <<tasks, request, response, ever_ids, prev_created>>

\* lines 45-46: the append and the 201 response
create_task_append(w) ==
    /\ threads[w].pc = "built"
    /\ tasks' = AppendTask(tasks, threads[w].task)
    /\ threads' =
         [threads EXCEPT ![w] =
            [pc |-> "done",
             response |-> [status |-> 201,
                           body |-> [task |-> threads[w].task]]]]
    /\ UNCHANGED <<request, response, ever_ids, prev_created>>

\* the thread takes the next request
thread_return(w) ==
    /\ threads[w].pc = "done"
    /\ threads' = [threads EXCEPT ![w] = Idle]
    /\ UNCHANGED <<tasks, request, response, ever_ids, prev_created>>

NextConc ==
    \/ \E w \in Workers, json \in CreateBodies : create_task_build(w, json)
    \/ \E w \in Workers : create_task_append(w)
    \/ \E w \in Workers : thread_return(w)

SpecConc == Init /\ [][NextConc]_vars

---------------------------------------------------------------------------
(* Properties *)

HasId(ts, task_id) == \E i \in 1..Len(ts) : ts[i].id = task_id

Created(r) == r.status = 201

\* C1: the id a successful create_task returns was never the id of a task
\* that has been in the collection before (seeds, earlier creates, deleted
\* ones included).
C1_IdNeverReused ==
    [][(request'.op = "create" /\ Created(response'))
          => response'.body.task.id \notin ever_ids]_vars

\* C2: every invocation ends with one of the documented (status, body)
\* results; no exception escapes a handler.
C2_OnlyDocumentedResults ==
    request.op # "none" =>
        \/ response \in {NotFound, TitleIsRequired, NoDataProvided}
        \/ response.status \in {200, 201}

\* C3: on an existing id, update_task answers 400 only for an absent body;
\* every JSON object, the one with no fields included, gets 200 and the keys
\* it lacks keep their values.
C3_ObjectBodyNeverRejected ==
    [][(/\ request'.op = "update"
        /\ HasId(tasks, request'.task_id)
        /\ request'.json # None)
          => /\ response'.status = 200
             /\ \A i \in 1..Len(tasks) :
                    tasks[i].id = request'.task_id =>
                        \A k \in {"title", "description", "done"} \ DOMAIN request'.json :
                            tasks'[i][k] = tasks[i][k]]_vars

\* C4: no task in the collection has an empty title.
C4_TitleNonEmpty == \A i \in 1..Len(tasks) : tasks[i].title # ""

\* C5: a successful create_task returns an id strictly greater than the id
\* the successful create_task before it returned.
C5_CreatedIdsIncrease ==
    [][(request'.op = "create" /\ Created(response') /\ prev_created # 0)
          => response'.body.task.id > prev_created]_vars

\* C6: delete_task on an id in the collection answers 200 {result: true},
\* shortens the collection by one, leaves every other task as it was and in
\* the same order, and get_task on that id then answers 404; on an id not in
\* the collection it answers 404 and changes nothing.
C6_DeleteRemovesExactlyOne ==
    [][request'.op = "delete" =>
         LET id == request'.task_id IN
         IF HasId(tasks, id)
         THEN /\ response' = [status |-> 200, body |-> [result |-> TRUE]]
              /\ Len(tasks') = Len(tasks) - 1
              /\ get_task_response(tasks', id) = NotFound
              /\ tasks' = SelectSeq(tasks, LAMBDA t : t.id # id)
         ELSE /\ response' = NotFound
              /\ tasks' = tasks]_vars

C6_Witness ==
    /\ request.op = "delete"
    /\ request.task_id = 2
    /\ response.status = 200
    /\ Len(tasks) = 2
    /\ tasks[2].id = 3

\* C7: a successful update_task sets, in the matched task only, the fields
\* among title, description, done whose key the body has, to the body's
\* values; the id stays, as do the length, the order and every other task.
C7_UpdatePartialMerge ==
    [][(request'.op = "update" /\ response'.status = 200) =>
         LET id == request'.task_id
             json == request'.json
         IN  /\ Len(tasks') = Len(tasks)
             /\ \A i \in 1..Len(tasks) :
                   IF tasks[i].id = id
                   THEN /\ tasks'[i].id = id
                        /\ \A k \in {"title", "description", "done"} :
                              tasks'[i][k] = IF k \in DOMAIN json
                                             THEN json[k]
                                             ELSE tasks[i][k]
                        /\ response'.body.task = tasks'[i]
                   ELSE tasks'[i] = tasks[i]]_vars

C7_Witness ==
    /\ request.op = "update"
    /\ response.status = 200
    /\ DOMAIN request.json = Keys
    /\ Len(tasks) = 3
    /\ request.task_id = 2
    /\ tasks[2].done
    /\ ~tasks[3].done

\* C8: create_task with no body, or a body without a title key, answers 400
\* "Title is required" and leaves the collection as it was, so that the next
\* create gets the id it would have got.
C8_MissingTitleRejected ==
    [][(/\ request'.op = "create"
        /\ request'.json = None \/ "title" \notin DOMAIN request'.json)
          => /\ response' = TitleIsRequired
             /\ tasks' = tasks
             /\ tasks # <<>> => NewId(tasks') = NewId(tasks)]_vars

C8_Witness ==
    /\ request.op = "create"
    /\ response = TitleIsRequired
    /\ DOMAIN request.json = {"description"}
    /\ Len(tasks) = 3

\* C9: when the two threads have both built their task from the same last id
\* and both appended it, the collection holds two tasks with the same id.
C9_SameReadGivesDuplicate ==
    (/\ \A w \in Workers : threads[w].pc = "done" /\ Created(threads[w].response)
     /\ threads[1].response.body.task.id = threads[2].response.body.task.id)
        => \E i, j \in 1..Len(tasks) : i < j /\ tasks[i].id = tasks[j].id

C9_Witness ==
    /\ \A w \in Workers : threads[w].pc = "done" /\ Created(threads[w].response)
    /\ threads[1].response.body.task.id = threads[2].response.body.task.id
    /\ Len(tasks) = 4
    /\ tasks[3].id = tasks[4].id

\* C10: in a sequential run the ids in the collection increase strictly in
\* insertion order: no two tasks share an id, the last task has the highest
\* id, and an id matches at most one task.
C10_IdsStrictlyIncreasing ==
    /\ \A i, j \in 1..Len(tasks) : i < j => tasks[i].id < tasks[j].id
    /\ \A i \in 1..Len(tasks) : tasks[i].id <= tasks[Len(tasks)].id
    /\ \A task_id \in PathIds : Len(Matching(tasks, task_id)) <= 1

C10_Witness ==
    /\ request.op = "create"
    /\ Created(response)
    /\ Len(tasks) = 2
    /\ tasks[1].id = 2
    /\ tasks[2].id = 3

====
